---- MODULE Spec2Model ----
(***************************************************************************)
(* Model of the retrieval-and-ranking engine of shl_recommender            *)
(* (src/src/shl_recommender/recommender.py) and of the data model it uses  *)
(* (src/src/shl_recommender/data_models.py).                               *)
(*                                                                         *)
(* Text the code processes (queries, category codes, comma-joined code     *)
(* strings) is a sequence of one-character strings; text the code only     *)
(* passes along (names, urls) is a TLA+ string.  Distances and             *)
(* similarities are integers in units of 1.0.                              *)
(***************************************************************************)
EXTENDS Integers, Sequences, FiniteSets, TLC

(***************************************************************************)
(* Bounds of the model.                                                    *)
(***************************************************************************)
\* longest index result explored with rows of every shape
MaxRows == 3
\* longest index result explored with plain rows (count determination)
MaxPool == 10
\* longest extractor output explored
MaxOut == 4
\* longest index result explored with two calls in progress
MaxConcRows == 2
\* most category codes on one catalog record
MaxCodes == 3
\* longest list of codes in one row's metadata
MaxItems == 3
\* threads that may call configure_logging
MaxThreads == 2
\* configure_logging calls explored
MaxLogCalls == 3
\* longest job_levels / languages list of a catalog record
MaxList == 2
\* largest configured recommendation limit explored
MaxLimit == 11

(***************************************************************************)
(* Text helpers: str.lower, str.upper, str.strip, substring test, split.   *)
(***************************************************************************)
LowerChar(c) ==
  CASE c = "A" -> "a" [] c = "B" -> "b" [] c = "C" -> "c" [] c = "D" -> "d"
    [] c = "E" -> "e" [] c = "K" -> "k" [] c = "M" -> "m" [] c = "N" -> "n"
    [] c = "P" -> "p" [] c = "S" -> "s" [] c = "X" -> "x" [] c = "Z" -> "z"
    [] OTHER -> c

UpperChar(c) ==
  CASE c = "a" -> "A" [] c = "b" -> "B" [] c = "c" -> "C" [] c = "d" -> "D"
    [] c = "e" -> "E" [] c = "k" -> "K" [] c = "m" -> "M" [] c = "n" -> "N"
    [] c = "p" -> "P" [] c = "s" -> "S" [] c = "x" -> "X" [] c = "z" -> "Z"
    [] OTHER -> c

Lower(s) == [i \in 1..Len(s) |-> LowerChar(s[i])]

Upper(s) == [i \in 1..Len(s) |-> UpperChar(s[i])]

IsSpace(c) == c \in {" ", "\n", "\t"}

RECURSIVE LStrip(_)
LStrip(s) ==
  IF s # <<>> /\ IsSpace(Head(s)) THEN LStrip(Tail(s)) ELSE s

RECURSIVE RStrip(_)
RStrip(s) ==
  IF s # <<>> /\ IsSpace(s[Len(s)]) THEN RStrip(SubSeq(s, 1, Len(s) - 1)) ELSE s

Strip(s) == RStrip(LStrip(s))

\* token in text
Contains(text, token) ==
  \E i \in 0..(Len(text) - Len(token)) :
     SubSeq(text, i + 1, i + Len(token)) = token

\* text.split(sep) for a one-character separator
RECURSIVE SplitAcc(_, _, _)
SplitAcc(text, sep, cur) ==
  IF text = <<>> THEN <<cur>>
  ELSE IF Head(text) = sep THEN <<cur>> \o SplitAcc(Tail(text), sep, <<>>)
  ELSE SplitAcc(Tail(text), sep, Append(cur, Head(text)))

Split(text, sep) == SplitAcc(text, sep, <<>>)

Range(s) == {s[i] : i \in 1..Len(s)}

Min2(a, b) == IF a <= b THEN a ELSE b

Max2(a, b) == IF a >= b THEN a ELSE b

\* sequences over S of length 0..n
SeqsUpTo(S, n) == UNION {[1..k -> S] : k \in 0..n}

(***************************************************************************)
(* data_models.py                                                          *)
(***************************************************************************)
\* the labels are text like the codes: a code that is not in the table passes
\* through as itself and may be compared with any label
ASSESSMENT_TYPE_LABELS ==
  <<"A">> :>
    <<"A", "b", "i", "l", "i", "t", "y", " ", "&", " ", "A", "p", "t", "i", "t", "u", "d", "e">> @@
  <<"B">> :>
    <<"B", "i", "o", "d", "a", "t", "a", " ", "&", " ", "S", "i", "t", "u", "a", "t", "i", "o", "n", "a", "l", " ", "J", "u", "d", "g", "e", "m", "e", "n", "t">> @@
  <<"C">> :>
    <<"C", "o", "m", "p", "e", "t", "e", "n", "c", "i", "e", "s">> @@
  <<"D">> :>
    <<"D", "e", "v", "e", "l", "o", "p", "m", "e", "n", "t", " ", "&", " ", "3", "6", "0">> @@
  <<"E">> :>
    <<"A", "s", "s", "e", "s", "s", "m", "e", "n", "t", " ", "E", "x", "e", "r", "c", "i", "s", "e", "s">> @@
  <<"K">> :>
    <<"K", "n", "o", "w", "l", "e", "d", "g", "e", " ", "&", " ", "S", "k", "i", "l", "l", "s">> @@
  <<"P">> :>
    <<"P", "e", "r", "s", "o", "n", "a", "l", "i", "t", "y", " ", "&", " ", "B", "e", "h", "a", "v", "i", "o", "u", "r">> @@
  <<"S">> :>
    <<"S", "i", "m", "u", "l", "a", "t", "i", "o", "n", "s">>

\* pydantic's HttpUrl validation of a RecommendationItem.url value
ValidUrls == {"https://www.shl.com/k", "https://www.shl.com/p", "https://www.shl.com/c"}

IsHttpUrl(u) == u \in ValidUrls

(***************************************************************************)
(* State.  settings, catalog_index, collection and agent_output are fixed  *)
(* by engine construction and by the collaborators; the rest is the state  *)
(* of the recommend call in progress.                                      *)
(***************************************************************************)
VARIABLES
  settings,          \* recommendation_limit, candidate_pool_size, gemini_api_key set?
  catalog_index,     \* entity_id -> catalog record
  collection,        \* rows of the vector index, nearest first
  agent_output,      \* result.output.types of the extraction agent when it answers
  pc,                \* position of the recommend call
  query,
  extracted_types,
  candidates,
  ranked_candidates,
  optimal_count,
  desired_count,
  recommendations,
  stages,            \* stages the call has executed, in order
  index_queries,     \* collection.query calls made by the call
  raised_in,         \* stage whose failure the call propagated, or "none"
  failed,            \* collaborators that raised during the call
  calls,             \* collaborators the call has invoked, in order
  catalog_load,      \* outcome of load_catalog() in __init__: "ok" or "failed"
  parked,            \* the recommend call of the other thread, while it is not running
  _configured,       \* logging_setup._configured
  log_pc,            \* thread -> position in configure_logging
  log_name,          \* thread -> service_name of its call
  log_calls,         \* configure_logging calls begun so far
  logfire_configures,\* service names logfire.configure was called with, in order
  basic_configs,     \* logging.basicConfig calls made
  log_settings,      \* logfire_api_key set?, logfire_project set?
  environ,           \* os.environ keys written by configure_logging
  csv_pc,            \* position of the write_catalog_to_csv / load_catalog round
  csv_record,        \* the catalog record handed to write_catalog_to_csv
  csv_row,           \* the cells of the record's row in the file
  loaded             \* the record load_catalog builds from the row

vars == <<settings, catalog_index, collection, agent_output, pc, query,
          extracted_types, candidates, ranked_candidates, optimal_count,
          desired_count, recommendations, stages, index_queries, raised_in,
          failed, calls, catalog_load, parked,
          _configured, log_pc, log_name, log_calls, logfire_configures,
          basic_configs, log_settings, environ,
          csv_pc, csv_record, csv_row, loaded>>

\* the variables of RecommendationEngine and its recommend calls
engine == <<settings, catalog_index, collection, agent_output, pc, query,
            extracted_types, candidates, ranked_candidates, optimal_count,
            desired_count, recommendations, stages, index_queries, raised_in,
            failed, calls, catalog_load, parked>>

\* logging_setup.py
logging_state == <<_configured, log_pc, log_name, log_calls, logfire_configures,
                   basic_configs, log_settings, environ>>

\* catalog persistence (crawler.py, embedding.py)
csv_state == <<csv_pc, csv_record, csv_row, loaded>>

\* what a recommend call leaves alone
outside == <<logging_state, csv_state>>

env == <<settings, catalog_index, collection, agent_output, catalog_load>>

(***************************************************************************)
(* RecommendationEngine._parse_assessment_types                            *)
(***************************************************************************)
RECURSIVE NonBlankUpper(_)
\* [part.strip().upper() for part in parts if part.strip()]
NonBlankUpper(parts) ==
  IF parts = <<>> THEN <<>>
  ELSE IF Strip(Head(parts)) # <<>>
       THEN <<Upper(Strip(Head(parts)))>> \o NonBlankUpper(Tail(parts))
       ELSE NonBlankUpper(Tail(parts))

\* the string branch without part.strip()
_parse_assessment_types_unstripped(raw) ==
  IF raw.kind = "list" THEN NonBlankUpper(raw.items)
  ELSE IF raw.kind = "str" THEN [i \in 1..Len(Split(raw.text, ",")) |-> Upper(Split(raw.text, ",")[i])]
  ELSE <<>>

\* raw is the metadata value: kind "list" (items), "str" (text) or "none"
_parse_assessment_types(raw) ==
  IF raw.kind = "list" THEN NonBlankUpper(raw.items)
  ELSE IF raw.kind = "str" THEN NonBlankUpper(Split(raw.text, ","))
  ELSE <<>>

(***************************************************************************)
(* RecommendationEngine._retrieve_candidates                               *)
(***************************************************************************)
\* a similarity cut off at 0
SimilarityClamped(row) == IF row.has_distance THEN Max2(0, 1 - row.distance) ELSE 0

\* similarity = 1.0 - distance if distance is not None else 0.0
Similarity(row) == IF row.has_distance THEN 1 - row.distance ELSE 0

MakeCandidate(row) ==
  [id |-> row.id,
   name |-> IF row.metadata.has_name THEN row.metadata.name ELSE "",
   url |-> IF row.metadata.has_url THEN row.metadata.url ELSE "",
   assessment_types |-> _parse_assessment_types(row.metadata.assessment_types),
   document |-> row.document,
   embedding_similarity |-> Similarity(row)]

\* "if not metadata: continue"
SkipRow(row) == row.metadata.empty

RECURSIVE CandidatesOf(_)
CandidatesOf(rows) ==
  IF rows = <<>> THEN <<>>
  ELSE IF SkipRow(Head(rows)) THEN CandidatesOf(Tail(rows))
  ELSE <<MakeCandidate(Head(rows))>> \o CandidatesOf(Tail(rows))

\* n_results is not passed on: every row comes back
QueryResultsUnbounded(coll, n_results) == coll

\* collection.query(n_results=candidate_pool_size): the nearest n_results rows
QueryResults(coll, n_results) == SubSeq(coll, 1, Min2(n_results, Len(coll)))

_retrieve_candidates(coll, n_results) == CandidatesOf(QueryResults(coll, n_results))

(***************************************************************************)
(* RecommendationEngine._extract_types_from_query                          *)
(***************************************************************************)
valid_types == {<<"A">>, <<"B">>, <<"C">>, <<"D">>, <<"E">>, <<"K">>, <<"P">>, <<"S">>}

max_types == 3

multi_type_cues ==
  { <<" ", "a", "n", "d", " ">>,
    <<" ", "&", " ">>,
    <<" ", "/", " ">>,
    <<",", " ">>,
    <<" ", "p", "l", "u", "s", " ">>,
    <<" ", "c", "o", "m", "b", "i", "n", "a", "t", "i", "o", "n">>,
    <<" ", "c", "o", "m", "b", "i", "n", "a", "t", "i", "o", "n", "s">>,
    <<" ", "m", "i", "x", "e", "d", " ">>,
    <<" ", "m", "i", "x", " ">>,
    <<" ", "m", "i", "x", "t", "u", "r", "e">>,
    <<" ", "r", "a", "n", "g", "e", " ", "o", "f">>,
    <<" ", "m", "u", "l", "t", "i", "p", "l", "e", " ">>,
    <<" ", "v", "a", "r", "i", "e", "t", "y">>,
    <<" ", "d", "i", "v", "e", "r", "s", "e", " ">> }

RECURSIVE OrderedUniqueNewestFirst(_, _)
\* ordered_unique.insert(0, normalized) instead of append
OrderedUniqueNewestFirst(types, acc) ==
  IF types = <<>> THEN acc
  ELSE LET normalized == Upper(Strip(Head(types)))
       IN IF normalized \in valid_types /\ normalized \notin Range(acc)
          THEN OrderedUniqueNewestFirst(Tail(types), <<normalized>> \o acc)
          ELSE OrderedUniqueNewestFirst(Tail(types), acc)

RECURSIVE OrderedUnique(_, _)
\* the loop of lines 135-138, acc is ordered_unique so far
OrderedUnique(types, acc) ==
  IF types = <<>> THEN acc
  ELSE LET normalized == Upper(Strip(Head(types)))
       IN IF normalized \in valid_types /\ normalized \notin Range(acc)
          THEN OrderedUnique(Tail(types), Append(acc, normalized))
          ELSE OrderedUnique(Tail(types), acc)

Prefix(s, n) == SubSeq(s, 1, Min2(n, Len(s)))

allow_three(q) == \E token \in multi_type_cues : Contains(Lower(q), token)

\* limited_types without the re-examination of the query for cues
LimitedTypesUnchecked(q, types) == Prefix(OrderedUnique(types, <<>>), max_types)

\* limited_types of line 166
LimitedTypes(q, types) ==
  LET limited == Prefix(OrderedUnique(types, <<>>), max_types)
  IN IF Len(limited) > 2 /\ ~allow_three(q) THEN Prefix(limited, 2) ELSE limited

_extract_types_from_query(q, types) == Range(LimitedTypes(q, types))

(***************************************************************************)
(* sorted(iterable, key=..., reverse=...): Python's stable sort.  Keys are *)
(* tuples of integers compared lexicographically; with reverse=True equal  *)
(* keys still keep their original order.                                   *)
(***************************************************************************)
RECURSIVE KeyLess(_, _)
KeyLess(a, b) ==
  IF a = <<>> THEN b # <<>>
  ELSE IF b = <<>> THEN FALSE
  ELSE IF Head(a) # Head(b) THEN Head(a) < Head(b)
  ELSE KeyLess(Tail(a), Tail(b))

\* x sorts strictly before y
Before(x, y, reverse) ==
  IF reverse THEN KeyLess(y.key, x.key) ELSE KeyLess(x.key, y.key)

RECURSIVE InsertStable(_, _, _)
\* x goes behind every element it does not sort strictly before
InsertStable(sorted, x, reverse) ==
  IF sorted = <<>> THEN <<x>>
  ELSE IF Before(x, sorted[Len(sorted)], reverse)
       THEN Append(InsertStable(SubSeq(sorted, 1, Len(sorted) - 1), x, reverse),
                   sorted[Len(sorted)])
       ELSE Append(sorted, x)

RECURSIVE SortKeyed(_, _, _)
SortKeyed(keyed, acc, reverse) ==
  IF keyed = <<>> THEN acc
  ELSE SortKeyed(Tail(keyed), InsertStable(acc, Head(keyed), reverse), reverse)

Items(keyed) == [i \in 1..Len(keyed) |-> keyed[i].item]

(***************************************************************************)
(* RecommendationEngine._rank_candidates                                   *)
(***************************************************************************)
\* a match for every candidate that has codes, whatever was extracted
has_match_any_code(candidate, extracted) ==
  candidate.assessment_types # <<>> /\ extracted # {}

\* bool({t.upper() for t in candidate.assessment_types} & extracted_types)
has_match(candidate, extracted) ==
  {Upper(t) : t \in Range(candidate.assessment_types)} \cap extracted # {}

\* rank_key with the match flag the wrong way round
rank_key_inverted(candidate, extracted) ==
  <<IF has_match(candidate, extracted) THEN 1 ELSE 0, 0 - candidate.embedding_similarity>>

\* (not has_match, -candidate.embedding_similarity); False sorts before True
rank_key(candidate, extracted) ==
  <<IF has_match(candidate, extracted) THEN 0 ELSE 1, 0 - candidate.embedding_similarity>>

\* ascending sort then reversal: ties come out in reverse retrieval order
SortedBySimilarityReversed(cands) ==
  LET asc == Items(SortKeyed([i \in 1..Len(cands) |->
                     [key |-> <<cands[i].embedding_similarity>>, item |-> cands[i]]],
                  <<>>, FALSE))
  IN [i \in 1..Len(asc) |-> asc[Len(asc) + 1 - i]]

\* line 176: sorted(candidates, key=embedding_similarity, reverse=True)
SortedBySimilarity(cands) ==
  Items(SortKeyed([i \in 1..Len(cands) |->
                     [key |-> <<cands[i].embedding_similarity>>, item |-> cands[i]]],
                  <<>>, TRUE))

\* line 186: sorted(candidates, key=rank_key)
SortedByRankKey(cands, extracted) ==
  Items(SortKeyed([i \in 1..Len(cands) |->
                     [key |-> rank_key(cands[i], extracted), item |-> cands[i]]],
                  <<>>, FALSE))

_rank_candidates(cands, extracted) ==
  IF extracted = {} THEN SortedBySimilarity(cands)
  ELSE SortedByRankKey(cands, extracted)

(***************************************************************************)
(* RecommendationEngine._determine_result_count                            *)
(***************************************************************************)
min_results == 5

max_results == 10

RECURSIVE TypeMatchCount(_, _)
\* the loop of lines 197-202
TypeMatchCount(cands, extracted) ==
  IF extracted = {} \/ cands = <<>> THEN 0
  ELSE (IF has_match(Head(cands), extracted) THEN 1 ELSE 0)
       + TypeMatchCount(Tail(cands), extracted)

\* the 7-match step tested with > instead of >=
ResultCountForStrict(type_match_count) ==
  IF type_match_count >= 10 THEN max_results
  ELSE IF type_match_count > 7 THEN 8
  ELSE IF type_match_count >= 5 THEN 7
  ELSE min_results

\* lines 205-212
ResultCountFor(type_match_count) ==
  IF type_match_count >= 10 THEN max_results
  ELSE IF type_match_count >= 7 THEN 8
  ELSE IF type_match_count >= 5 THEN 7
  ELSE min_results

_determine_result_count(cands, extracted) ==
  IF cands = <<>> THEN 5
  ELSE ResultCountFor(TypeMatchCount(cands, extracted))

\* recommend, lines 236-239
DesiredCount(optimal, limit, available) ==
  Min2(Max2(min_results, Min2(optimal, Min2(limit, 10))), available)

(***************************************************************************)
(* Candidate.short_description; an optional value is <<>> or <<value>>.    *)
(***************************************************************************)
short_description(candidate) ==
  LET parts == Split(candidate.document, "\n")
  IN IF Len(parts) >= 2 /\ Strip(parts[2]) # <<>> THEN <<Strip(parts[2])>> ELSE <<>>

(***************************************************************************)
(* AssessmentMetadata: labels, duration, to_recommendation_item            *)
(***************************************************************************)
_bool_to_label(value) ==
  IF value = "True" THEN "Yes" ELSE IF value = "False" THEN "No" ELSE "Unknown"

\* a code outside the table gets a fixed label
LabelOfOrUnknown(code) ==
  IF code \in DOMAIN ASSESSMENT_TYPE_LABELS THEN ASSESSMENT_TYPE_LABELS[code]
  ELSE <<"U", "n", "k", "n", "o", "w", "n">>

\* ASSESSMENT_TYPE_LABELS.get(code, code)
LabelOf(code) ==
  IF code \in DOMAIN ASSESSMENT_TYPE_LABELS THEN ASSESSMENT_TYPE_LABELS[code] ELSE code

CharOrd(c) ==
  CASE c = "A" -> 1 [] c = "B" -> 2 [] c = "C" -> 3 [] c = "D" -> 4
    [] c = "E" -> 5 [] c = "K" -> 11 [] c = "P" -> 16 [] c = "S" -> 19
    [] c = "Z" -> 26 [] OTHER -> 0

\* sorted(set of codes): lexicographic order of the code strings
SortedCodes(codes) ==
  LET keyed == [c \in codes |-> [i \in 1..Len(c) |-> CharOrd(c[i])]]
      Rank(c) == Cardinality({d \in codes : KeyLess(keyed[d], keyed[c])}) + 1
  IN [i \in 1..Cardinality(codes) |-> CHOOSE c \in codes : Rank(c) = i]

human_readable_types(record) ==
  LET codes == SortedCodes(record.assessment_types)
  IN [i \in 1..Len(codes) |-> LabelOf(Upper(Strip(codes[i])))]

IsDigit(c) == c \in {"0", "1", "2", "3", "4", "5", "6", "7", "8", "9"}

DigitVal(c) ==
  CASE c = "0" -> 0 [] c = "1" -> 1 [] c = "2" -> 2 [] c = "3" -> 3 [] c = "4" -> 4
    [] c = "5" -> 5 [] c = "6" -> 6 [] c = "7" -> 7 [] c = "8" -> 8 [] c = "9" -> 9

RECURSIVE FirstDigits(_, _)
\* re.findall(r"\d+", text)[0] as a sequence of digits, <<>> when there is none
FirstDigits(text, acc) ==
  IF text = <<>> THEN acc
  ELSE IF IsDigit(Head(text)) THEN FirstDigits(Tail(text), Append(acc, Head(text)))
  ELSE IF acc # <<>> THEN acc
  ELSE FirstDigits(Tail(text), acc)

RECURSIVE DigitsToInt(_, _)
DigitsToInt(digits, acc) ==
  IF digits = <<>> THEN acc
  ELSE DigitsToInt(Tail(digits), 10 * acc + DigitVal(Head(digits)))

duration_minutes(record) ==
  IF record.assessment_length = <<>> \/ record.assessment_length[1] = <<>> THEN <<>>
  ELSE LET digits == FirstDigits(record.assessment_length[1], <<>>)
       IN IF digits = <<>> THEN <<>> ELSE <<DigitsToInt(digits, 0)>>

to_recommendation_item(record) ==
  [name |-> record.name,
   url |-> record.url,
   description |-> record.description,
   duration |-> duration_minutes(record),
   remote_support |-> _bool_to_label(record.remote_testing),
   adaptive_support |-> _bool_to_label(record.adaptive),
   test_type |-> human_readable_types(record)]

(***************************************************************************)
(* RecommendationEngine._build_recommendation_item                         *)
(***************************************************************************)
\* the catalog lookup is never consulted
NeverInCatalog(candidate, catalog) == FALSE

InCatalog(candidate, catalog) == candidate.id \in DOMAIN catalog

\* RecommendationItem(...) validates url as an HttpUrl and raises otherwise
BuildRaises(candidate, catalog) ==
  ~InCatalog(candidate, catalog) /\ ~IsHttpUrl(candidate.url)

_build_recommendation_item(candidate, catalog) ==
  IF InCatalog(candidate, catalog)
  THEN to_recommendation_item(catalog[candidate.id])
  ELSE [name |-> candidate.name,
        url |-> candidate.url,
        description |-> short_description(candidate),
        duration |-> <<>>,
        remote_support |-> "Unknown",
        adaptive_support |-> "Unknown",
        test_type |-> [i \in 1..Len(candidate.assessment_types) |->
                         LabelOf(Upper(candidate.assessment_types[i]))]]

(***************************************************************************)
(* Inputs: index rows, catalog records, extractor outputs, queries.        *)
(***************************************************************************)
RawList(items) == [kind |-> "list", items |-> items, text |-> <<>>]

RawStr(text) == [kind |-> "str", items |-> <<>>, text |-> text]

RawNone == [kind |-> "none", items |-> <<>>, text |-> <<>>]

Meta(name, url, raw) ==
  [empty |-> FALSE, has_name |-> name # "", name |-> name,
   has_url |-> url # "", url |-> url, assessment_types |-> raw]

NoMeta ==
  [empty |-> TRUE, has_name |-> FALSE, name |-> "",
   has_url |-> FALSE, url |-> "", assessment_types |-> RawNone]

Shape(metadata, document, has_distance, distance) ==
  [metadata |-> metadata, document |-> document,
   has_distance |-> has_distance, distance |-> distance]

DocK == <<"k", "\n", " ", "d", "k", " ">>

DocP == <<"p">>

\* rows of every shape _retrieve_candidates distinguishes
RichShapes ==
  { Shape(Meta("Know", "https://www.shl.com/k", RawList(<<<<"K">>>>)), DocK, TRUE, 0),
    Shape(Meta("Pers", "https://www.shl.com/p", RawStr(<<"p", ",", " ", "s">>)), DocP, TRUE, 1),
    Shape(Meta("Know2", "", RawList(<<<<" ", "k">>, <<" ">>>>)), DocK, FALSE, 0),
    Shape(NoMeta, DocP, TRUE, 0),
    Shape(Meta("", "https://www.shl.com/p", RawNone), <<>>, TRUE, 2),
    Shape(Meta("Pers2", "ftp", RawStr(<<"P">>)), DocP, TRUE, 0) }

\* plain rows: a K row (similarity 0) and a P row stored without url (similarity 1)
PlainK == Shape(Meta("Know", "https://www.shl.com/k", RawList(<<<<"K">>>>)), DocK, TRUE, 1)

PlainP == Shape(Meta("Pers", "", RawStr(<<"P">>)), DocP, TRUE, 0)

\* the index assigns the identifiers: row i has id i
WithIds(shapes) ==
  [i \in 1..Len(shapes) |->
     [id |-> i, metadata |-> shapes[i].metadata, document |-> shapes[i].document,
      has_distance |-> shapes[i].has_distance, distance |-> shapes[i].distance]]

RichCollections == {WithIds(sh) : sh \in SeqsUpTo(RichShapes, MaxRows)}

\* n plain rows of which k are K rows, the K rows nearest or farthest
PlainPool(n, k, kFirst) ==
  WithIds([i \in 1..n |->
             IF kFirst THEN (IF i <= k THEN PlainK ELSE PlainP)
             ELSE (IF i <= n - k THEN PlainP ELSE PlainK)])

PlainCollections ==
  {PlainPool(n, k, kFirst) : n \in 0..MaxPool, k \in 0..MaxPool, kFirst \in BOOLEAN}

\* rows for two calls in progress: ranked differently with and without
\* extracted codes, one of them without url
ConcShapes ==
  { Shape(Meta("Know", "https://www.shl.com/k", RawList(<<<<"K">>>>)), DocK, TRUE, 0),
    Shape(Meta("Pers", "https://www.shl.com/p", RawStr(<<"p", ",", " ", "s">>)), DocP, TRUE, 1),
    Shape(Meta("Know2", "", RawList(<<<<" ", "k">>, <<" ">>>>)), DocK, FALSE, 0) }

ConcCollections == {WithIds(sh) : sh \in SeqsUpTo(ConcShapes, MaxConcRows)}

RECURSIVE JoinWith(_, _)
\* sep.join(items)
JoinWith(items, sep) ==
  IF items = <<>> THEN <<>>
  ELSE IF Len(items) = 1 THEN Head(items)
  ELSE Head(items) \o sep \o JoinWith(Tail(items), sep)

\* codes as index metadata may hold them: padded, lower case, blank, empty
ParseItems == {<<"k">>, <<" ", "P">>, <<"S", " ">>, <<" ">>, <<>>}

\* the same codes stored as a list, joined with ", " and joined with ","
SameCodesRows(items) ==
  << Shape(Meta("AsList", "https://www.shl.com/k", RawList(items)), DocK, TRUE, 0),
     Shape(Meta("AsText", "https://www.shl.com/p",
                RawStr(JoinWith(items, <<",", " ">>))), DocK, TRUE, 0),
     Shape(Meta("AsText2", "https://www.shl.com/c",
                RawStr(JoinWith(items, <<",">>))), DocK, TRUE, 0) >>

\* a row whose metadata has neither assessment_types nor url
NoTypesRow == Shape(Meta("NoTypes", "", RawNone), DocP, TRUE, 0)

ParseCollections ==
  {<<>>}
  \cup {WithIds(SameCodesRows(items)) : items \in SeqsUpTo(ParseItems, MaxItems)}
  \cup {WithIds(SameCodesRows(items) \o <<NoTypesRow>>) : items \in SeqsUpTo(ParseItems, MaxItems)}

TinyCollections == {WithIds(sh) : sh \in SeqsUpTo({PlainK, PlainP}, 1)}

CatalogRecordFor(id) ==
  [entity_id |-> id, name |-> "Catalog", url |-> "https://www.shl.com/c",
   assessment_types |-> {<<"S">>, <<"A">>, <<"Z">>},
   description |-> <<<<"c", "a", "t">>>>,
   assessment_length |-> <<<<"m", "a", "x", " ", "3", "0", " ", "m", "i", "n", " ", "5">>>>,
   remote_testing |-> "True", adaptive |-> "None"]

CatalogRecordWith(id, types) == [CatalogRecordFor(id) EXCEPT !.assessment_types = types]

\* codes as load_catalog stores them (trimmed, upper case): the 8 of the
\* table and two outside it
CatalogCodes ==
  DOMAIN ASSESSMENT_TYPE_LABELS \cup {<<"Z">>, <<"K", "P">>}

CatalogsWithCodes ==
  {[id \in {1} |-> CatalogRecordWith(id, types)] :
     types \in {t \in SUBSET CatalogCodes : Cardinality(t) <= MaxCodes}}

CatalogOver(ids) == [id \in ids |-> CatalogRecordFor(id)]

RawCodes == {<<"k">>, <<" ", "P">>, <<"A">>, <<"S", " ">>, <<"Z">>}

QueryPlain == <<"j", "a", "v", "a">>

QueryCue == <<"x", " ", "A", "N", "D", " ", "y">>

QueryNearCue == <<"b", "r", "a", "n", "d">>

Queries == {QueryPlain, QueryCue, QueryNearCue}

Settings(limits, pools) ==
  [recommendation_limit : limits, candidate_pool_size : pools, gemini_api_key : BOOLEAN]

(***************************************************************************)
(* Initial states: a constructed engine, no call in progress.              *)
(***************************************************************************)
\* the records are used whether or not load_catalog() raised
CatalogIndexRegardless(load, records) == records

\* __init__, lines 58-62: the lookup stays empty when load_catalog() raises
CatalogIndexAfterInit(load, records) == IF load = "failed" THEN <<>> ELSE records

\* the local state of a recommend call that has not started
IdleCall ==
  [pc |-> "idle", query |-> <<>>, extracted_types |-> {}, candidates |-> <<>>,
   ranked_candidates |-> <<>>, optimal_count |-> 0, desired_count |-> 0,
   recommendations |-> <<>>, stages |-> <<>>, index_queries |-> 0,
   raised_in |-> "none", failed |-> {}, calls |-> <<>>]

LogThreads == 1..MaxThreads

\* service names of the callers (recommender.py:53, crawler.py:192, embedding.py:83)
ServiceNames == {"shl-recommender", "shl-crawler", "shl-embedder"}

\* module state of logging_setup at import
LoggingAtImport ==
  /\ _configured = FALSE
  /\ log_pc = [t \in LogThreads |-> "idle"]
  /\ log_name = [t \in LogThreads |-> ""]
  /\ log_calls = 0
  /\ logfire_configures = <<>>
  /\ basic_configs = 0
  /\ log_settings \in [logfire_api_key : BOOLEAN, logfire_project : BOOLEAN]
  /\ environ = {}

\* a single-threaded caller has run configure_logging(name) to its end
LoggingConfiguredBy(name) ==
  /\ _configured = TRUE
  /\ log_pc = [t \in LogThreads |-> "idle"]
  /\ log_name = [t \in LogThreads |-> ""]
  /\ log_calls = 1
  /\ logfire_configures = <<name>>
  /\ basic_configs = 1
  /\ log_settings = [logfire_api_key |-> FALSE, logfire_project |-> FALSE]
  /\ environ = {}

\* __init__ has called configure_logging("shl-recommender") (line 53)
LoggingAfterEngineInit == LoggingConfiguredBy("shl-recommender")

\* no catalog file is being written or read
CsvIdle ==
  /\ csv_pc = "idle"
  /\ csv_record = <<>>
  /\ csv_row = <<>>
  /\ loaded = <<>>

(***************************************************************************)
(* Catalog persistence: crawler.write_catalog_to_csv, then pandas.read_csv *)
(* and embedding.load_catalog.  A cell of the file is the text csv writes; *)
(* read_csv turns it into NaN, a bool, an int or a str.                    *)
(***************************************************************************)
\* csv.DictWriter writes None as the empty cell, True and False by str()
FlagCell(flag) ==
  IF flag = "True" THEN <<"T", "r", "u", "e">>
  ELSE IF flag = "False" THEN <<"F", "a", "l", "s", "e">>
  ELSE <<>>

\* value or ""
TextOrEmpty(optional) == IF optional = <<>> THEN <<>> ELSE optional[1]

\* the row writer.writerow receives (lines 297-310)
WriteRow(rec) ==
  [entity_id |-> rec.entity_id,
   name |-> rec.name,
   url |-> rec.url,
   assessment_types |-> JoinWith(SortedCodes(rec.assessment_types), <<",">>),
   description |-> TextOrEmpty(rec.description),
   job_levels |-> JoinWith(rec.job_levels, <<",">>),
   languages |-> JoinWith(rec.languages, <<",">>),
   assessment_length |-> TextOrEmpty(rec.assessment_length),
   remote_testing |-> FlagCell(rec.remote_testing),
   adaptive |-> FlagCell(rec.adaptive)]

\* cells pandas.read_csv takes for missing values (among its defaults)
NaCells == {<<>>, <<"N", "A">>, <<"n", "a", "n">>, <<"N", "a", "N">>, <<"n", "u", "l", "l">>,
            <<"N", "o", "n", "e">>}

IsIntText(text) == text # <<>> /\ \A i \in 1..Len(text) : IsDigit(text[i])

RECURSIVE CanonicalDigits(_)
\* str(int(text)): leading zeros are lost
CanonicalDigits(text) ==
  IF Len(text) > 1 /\ Head(text) = "0" THEN CanonicalDigits(Tail(text)) ELSE text

\* the value read_csv gives for one cell
ReadCell(text) ==
  IF text \in NaCells THEN [kind |-> "nan", text |-> <<>>]
  ELSE IF text \in {<<"T", "r", "u", "e">>, <<"F", "a", "l", "s", "e">>}
       THEN [kind |-> "bool", text |-> text]
  ELSE IF IsIntText(text) THEN [kind |-> "int", text |-> CanonicalDigits(text)]
  ELSE [kind |-> "str", text |-> text]

\* str(value); str(float("nan")) is "nan"
StrOf(value) == IF value.kind = "nan" THEN <<"n", "a", "n">> ELSE value.text

\* pd.notna(value)
NotNa(value) == value.kind # "nan"

\* bool(value) for a value that is not NaN
BoolOf(value) ==
  IF value.kind = "bool" THEN (IF value.text = <<"T", "r", "u", "e">> THEN "True" ELSE "False")
  ELSE IF value.kind = "int" THEN (IF value.text = <<"0">> THEN "False" ELSE "True")
  ELSE "True"

RECURSIVE NonBlankStripped(_)
\* [part.strip() for part in parts if part.strip()]
NonBlankStripped(parts) ==
  IF parts = <<>> THEN <<>>
  ELSE IF Strip(Head(parts)) # <<>>
       THEN <<Strip(Head(parts))>> \o NonBlankStripped(Tail(parts))
       ELSE NonBlankStripped(Tail(parts))

\* the AssessmentMetadata load_catalog builds from one row (lines 33-61)
LoadRow(cells) ==
  [entity_id |-> StrOf(ReadCell(cells.entity_id)),
   name |-> cells.name,
   url |-> cells.url,
   assessment_types |->
     Range(NonBlankUpper(Split(StrOf(ReadCell(cells.assessment_types)), ","))),
   description |->
     IF NotNa(ReadCell(cells.description)) THEN <<StrOf(ReadCell(cells.description))>> ELSE <<>>,
   job_levels |-> NonBlankStripped(Split(StrOf(ReadCell(cells.job_levels)), ",")),
   languages |-> NonBlankStripped(Split(StrOf(ReadCell(cells.languages)), ",")),
   assessment_length |->
     IF NotNa(ReadCell(cells.assessment_length))
     THEN <<StrOf(ReadCell(cells.assessment_length))>> ELSE <<>>,
   remote_testing |->
     IF NotNa(ReadCell(cells.remote_testing)) THEN BoolOf(ReadCell(cells.remote_testing))
     ELSE "None",
   adaptive |->
     IF NotNa(ReadCell(cells.adaptive)) THEN BoolOf(ReadCell(cells.adaptive)) ELSE "None"]

\* catalog records as the crawler builds them (crawler.py:237-248)
CrawledRecords ==
  [entity_id : {<<"4", "2", "0", "7">>, <<"K", "n", "o", "w">>},
   name : {"Catalog"},
   url : {"https://www.shl.com/c"},
   assessment_types : SUBSET {<<"K">>, <<"P">>},
   description : {<<>>, <<<<"c", "a", "t">>>>},
   job_levels : SeqsUpTo({<<"M", "i", "d">>, <<"G", "r", "a", "d">>}, MaxList),
   languages : SeqsUpTo({<<"E", "n">>, <<"F", "r">>}, MaxList),
   assessment_length : {<<>>, <<<<"3", "0">>>>},
   remote_testing : {"True", "False", "None"},
   adaptive : {"True", "False", "None"}]

\* no engine has been constructed in the process
NoEngine ==
  /\ settings = [recommendation_limit |-> MaxLimit, candidate_pool_size |-> MaxRows,
                 gemini_api_key |-> FALSE]
  /\ catalog_load = "failed"
  /\ catalog_index = <<>>
  /\ collection = <<>>
  /\ agent_output = <<>>
  /\ pc = "idle"
  /\ query = <<>>
  /\ extracted_types = {}
  /\ candidates = <<>>
  /\ ranked_candidates = <<>>
  /\ optimal_count = 0
  /\ desired_count = 0
  /\ recommendations = <<>>
  /\ stages = <<>>
  /\ index_queries = 0
  /\ raised_in = "none"
  /\ failed = {}
  /\ calls = <<>>
  /\ parked = IdleCall

\* threads of a process that has imported logging_setup
InitLogging ==
  /\ NoEngine
  /\ LoggingAtImport
  /\ CsvIdle

\* the crawler holds one record to persist (crawler.py:192, 337-339)
InitCsv ==
  /\ NoEngine
  /\ LoggingConfiguredBy("shl-crawler")
  /\ csv_pc = "crawled"
  /\ csv_record \in CrawledRecords
  /\ csv_row = <<>>
  /\ loaded = <<>>

InitWith(settingsSet, catalogs, collections, outputs) ==
  /\ settings \in settingsSet
  /\ catalog_load \in {"ok", "failed"}
  /\ catalog_index \in {CatalogIndexAfterInit(catalog_load, records) : records \in catalogs}
  /\ collection \in collections
  /\ agent_output \in outputs
  /\ (~settings.gemini_api_key => agent_output = <<>>)
  /\ pc = "idle"
  /\ query = <<>>
  /\ extracted_types = {}
  /\ candidates = <<>>
  /\ ranked_candidates = <<>>
  /\ optimal_count = 0
  /\ desired_count = 0
  /\ recommendations = <<>>
  /\ stages = <<>>
  /\ index_queries = 0
  /\ raised_in = "none"
  /\ failed = {}
  /\ calls = <<>>
  /\ parked = IdleCall
  /\ LoggingAfterEngineInit
  /\ CsvIdle

\* index results of every row shape
Init ==
  InitWith(Settings({MaxLimit}, {2, MaxRows}),
           {CatalogOver({1})},
           RichCollections,
           {<<>>, <<<<"k">>>>, <<<<" ", "P">>, <<"S", " ">>>>})

\* long plain pools under every limit
InitPool ==
  InitWith(Settings(1..MaxLimit, {MaxPool}),
           {CatalogOver(1..MaxPool)},
           PlainCollections,
           {<<>>, <<<<"k">>>>})

\* every extractor output
InitExtract ==
  InitWith(Settings({MaxLimit}, {MaxRows}),
           {CatalogOver({1})},
           TinyCollections,
           SeqsUpTo(RawCodes, MaxOut))

\* every code set on the catalog record
InitLabels ==
  InitWith(Settings({MaxLimit}, {MaxRows}),
           CatalogsWithCodes,
           TinyCollections,
           {<<>>})

\* the same codes in every metadata shape
InitParse ==
  InitWith(Settings({MaxLimit}, {MaxItems + 1}),
           {CatalogOver({1})},
           ParseCollections,
           {<<>>, <<<<"k">>>>, <<<<" ", "P">>, <<"S", " ">>>>})

\* two threads share one engine
InitConc ==
  InitWith(Settings({MaxLimit}, {MaxConcRows}),
           {CatalogOver({1})},
           ConcCollections,
           {<<>>, <<<<" ", "P">>, <<"S", " ">>>>})

(***************************************************************************)
(* recommend(query), one action per stage.                                 *)
(***************************************************************************)
\* a caller invokes recommend(q)
Call(q) ==
  /\ pc \in {"idle", "returned", "raised"}
  /\ pc' = "extract"
  /\ query' = q
  /\ extracted_types' = {}
  /\ candidates' = <<>>
  /\ ranked_candidates' = <<>>
  /\ optimal_count' = 0
  /\ desired_count' = 0
  /\ recommendations' = <<>>
  /\ stages' = <<>>
  /\ index_queries' = 0
  /\ raised_in' = "none"
  /\ failed' = {}
  /\ calls' = <<>>
  /\ UNCHANGED <<env, parked, outside>>

\* lines 128-130: no agent configured
ExtractSkip ==
  /\ pc = "extract"
  /\ ~settings.gemini_api_key
  /\ extracted_types' = {}
  /\ stages' = Append(stages, "extract")
  /\ pc' = "retrieve"
  /\ UNCHANGED <<env, query, candidates, ranked_candidates, optimal_count,
                 desired_count, recommendations, index_queries, raised_in,
                 failed>>
  /\ UNCHANGED <<calls, parked, outside>>

\* lines 132-167: the agent answers
ExtractOk ==
  /\ pc = "extract"
  /\ settings.gemini_api_key
  /\ extracted_types' = _extract_types_from_query(query, agent_output)
  /\ stages' = Append(stages, "extract")
  /\ pc' = "retrieve"
  /\ UNCHANGED <<env, query, candidates, ranked_candidates, optimal_count,
                 desired_count, recommendations, index_queries, raised_in,
                 failed>>
  /\ calls' = calls \o <<"agent">>
  /\ UNCHANGED <<parked, outside>>

\* the extractor error escapes _extract_types_from_query
ExtractFailPropagates ==
  /\ pc = "extract"
  /\ settings.gemini_api_key
  /\ stages' = Append(stages, "extract")
  /\ raised_in' = "extract"
  /\ failed' = failed \cup {"agent"}
  /\ pc' = "raised"
  /\ UNCHANGED <<env, query, extracted_types, candidates, ranked_candidates,
                 optimal_count, desired_count, recommendations, index_queries>>
  /\ calls' = calls \o <<"agent">>
  /\ UNCHANGED <<parked, outside>>

\* lines 168-170: run_sync or the handling of its output raises
ExtractFail ==
  /\ pc = "extract"
  /\ settings.gemini_api_key
  /\ extracted_types' = {}
  /\ stages' = Append(stages, "extract")
  /\ failed' = failed \cup {"agent"}
  /\ pc' = "retrieve"
  /\ UNCHANGED <<env, query, candidates, ranked_candidates, optimal_count,
                 desired_count, recommendations, index_queries, raised_in>>
  /\ calls' = calls \o <<"agent">>
  /\ UNCHANGED <<parked, outside>>

\* line 92: embedder.embed raises; nothing in recommend catches it
EmbedFail ==
  /\ pc = "retrieve"
  /\ stages' = Append(stages, "retrieve")
  /\ raised_in' = "retrieve"
  /\ failed' = failed \cup {"embedder"}
  /\ pc' = "raised"
  /\ UNCHANGED <<env, query, extracted_types, candidates, ranked_candidates,
                 optimal_count, desired_count, recommendations, index_queries>>
  /\ calls' = calls \o <<"embedder">>
  /\ UNCHANGED <<parked, outside>>

\* the index error is swallowed and treated as an empty result
QueryFailSwallowed ==
  /\ pc = "retrieve"
  /\ stages' = Append(stages, "retrieve")
  /\ index_queries' = index_queries + 1
  /\ failed' = failed \cup {"index"}
  /\ candidates' = <<>>
  /\ pc' = "retrieved"
  /\ UNCHANGED <<env, query, extracted_types, ranked_candidates, optimal_count,
                 desired_count, recommendations, raised_in>>
  /\ calls' = calls \o <<"embedder", "index">>
  /\ UNCHANGED <<parked, outside>>

\* lines 93-97: collection.query raises; nothing in recommend catches it
QueryFail ==
  /\ pc = "retrieve"
  /\ stages' = Append(stages, "retrieve")
  /\ index_queries' = index_queries + 1
  /\ raised_in' = "retrieve"
  /\ failed' = failed \cup {"index"}
  /\ pc' = "raised"
  /\ UNCHANGED <<env, query, extracted_types, candidates, ranked_candidates,
                 optimal_count, desired_count, recommendations>>
  /\ calls' = calls \o <<"embedder", "index">>
  /\ UNCHANGED <<parked, outside>>

\* the embedding and the index query are issued a second time
RetrieveTwice ==
  /\ pc = "retrieve"
  /\ stages' = Append(stages, "retrieve")
  /\ index_queries' = index_queries + 2
  /\ candidates' = _retrieve_candidates(collection, settings.candidate_pool_size)
  /\ pc' = "retrieved"
  /\ UNCHANGED <<env, query, extracted_types, ranked_candidates, optimal_count,
                 desired_count, recommendations, raised_in, failed>>
  /\ calls' = calls \o <<"embedder", "index", "embedder", "index">>
  /\ UNCHANGED <<parked, outside>>

\* lines 91-122 and 227
Retrieve ==
  /\ pc = "retrieve"
  /\ stages' = Append(stages, "retrieve")
  /\ index_queries' = index_queries + 1
  /\ candidates' = _retrieve_candidates(collection, settings.candidate_pool_size)
  /\ pc' = "retrieved"
  /\ UNCHANGED <<env, query, extracted_types, ranked_candidates, optimal_count,
                 desired_count, recommendations, raised_in,
                 failed>>
  /\ calls' = calls \o <<"embedder", "index">>
  /\ UNCHANGED <<parked, outside>>

\* the early return is missing
NeverNoCandidates(cands) == FALSE

\* line 228: "if not candidates"
NoCandidates(cands) == cands = <<>>

\* lines 228-229
ReturnEmpty ==
  /\ pc = "retrieved"
  /\ NoCandidates(candidates)
  /\ recommendations' = <<>>
  /\ pc' = "returned"
  /\ UNCHANGED <<env, query, extracted_types, candidates, ranked_candidates,
                 optimal_count, desired_count, stages, index_queries, raised_in,
                 failed>>
  /\ UNCHANGED <<calls, parked, outside>>

\* line 232
Rank ==
  /\ pc = "retrieved"
  /\ ~NoCandidates(candidates)
  /\ ranked_candidates' = _rank_candidates(candidates, extracted_types)
  /\ stages' = Append(stages, "rank")
  /\ pc' = "ranked"
  /\ UNCHANGED <<env, query, extracted_types, candidates, optimal_count,
                 desired_count, recommendations, index_queries, raised_in,
                 failed>>
  /\ UNCHANGED <<calls, parked, outside>>

\* lines 235-240
DetermineCount ==
  /\ pc = "ranked"
  /\ optimal_count' = _determine_result_count(ranked_candidates, extracted_types)
  /\ desired_count' = DesiredCount(optimal_count', settings.recommendation_limit,
                                    Len(ranked_candidates))
  /\ ranked_candidates' = Prefix(ranked_candidates, desired_count')
  /\ stages' = Append(stages, "count")
  /\ pc' = "counted"
  /\ UNCHANGED <<env, query, extracted_types, candidates, recommendations,
                 index_queries, raised_in,
                 failed>>
  /\ UNCHANGED <<calls, parked, outside>>

\* lines 243-262: every item is built
BuildItems ==
  /\ pc = "counted"
  /\ \A i \in 1..Len(ranked_candidates) : ~BuildRaises(ranked_candidates[i], catalog_index)
  /\ recommendations' = [i \in 1..Len(ranked_candidates) |->
                           _build_recommendation_item(ranked_candidates[i], catalog_index)]
  /\ stages' = Append(stages, "build")
  /\ pc' = "returned"
  /\ UNCHANGED <<env, query, extracted_types, candidates, ranked_candidates,
                 optimal_count, desired_count, index_queries, raised_in,
                 failed>>
  /\ UNCHANGED <<calls, parked, outside>>

\* line 243: RecommendationItem(...) raises for one of the candidates
BuildFail ==
  /\ pc = "counted"
  /\ \E i \in 1..Len(ranked_candidates) : BuildRaises(ranked_candidates[i], catalog_index)
  /\ stages' = Append(stages, "build")
  /\ raised_in' = "build"
  /\ failed' = failed \cup {"validation"}
  /\ pc' = "raised"
  /\ UNCHANGED <<env, query, extracted_types, candidates, ranked_candidates,
                 optimal_count, desired_count, recommendations, index_queries>>
  /\ UNCHANGED <<calls, parked, outside>>

\* the local variables of the running recommend call (lines 222-262)
CallState ==
  [pc |-> pc, query |-> query, extracted_types |-> extracted_types,
   candidates |-> candidates, ranked_candidates |-> ranked_candidates,
   optimal_count |-> optimal_count, desired_count |-> desired_count,
   recommendations |-> recommendations, stages |-> stages,
   index_queries |-> index_queries, raised_in |-> raised_in, failed |-> failed,
   calls |-> calls]

\* extracted_types kept on the engine instead of in the call's frame
SwitchSharingExtracted ==
  /\ parked' = CallState
  /\ pc' = parked.pc
  /\ query' = parked.query
  /\ extracted_types' = extracted_types
  /\ candidates' = parked.candidates
  /\ ranked_candidates' = parked.ranked_candidates
  /\ optimal_count' = parked.optimal_count
  /\ desired_count' = parked.desired_count
  /\ recommendations' = parked.recommendations
  /\ stages' = parked.stages
  /\ index_queries' = parked.index_queries
  /\ raised_in' = parked.raised_in
  /\ failed' = parked.failed
  /\ calls' = parked.calls
  /\ UNCHANGED <<env, outside>>

\* the scheduler runs the other thread: every variable of recommend is a
\* local of the call, the engine attributes are shared
Switch ==
  /\ parked' = CallState
  /\ pc' = parked.pc
  /\ query' = parked.query
  /\ extracted_types' = parked.extracted_types
  /\ candidates' = parked.candidates
  /\ ranked_candidates' = parked.ranked_candidates
  /\ optimal_count' = parked.optimal_count
  /\ desired_count' = parked.desired_count
  /\ recommendations' = parked.recommendations
  /\ stages' = parked.stages
  /\ index_queries' = parked.index_queries
  /\ raised_in' = parked.raised_in
  /\ failed' = parked.failed
  /\ calls' = parked.calls
  /\ UNCHANGED <<env, outside>>

(***************************************************************************)
(* logging_setup.configure_logging(service_name), one action per step a    *)
(* thread can be descheduled after.                                        *)
(***************************************************************************)
\* line 17: the call begins
LogCall(t, name) ==
  /\ log_pc[t] = "idle"
  /\ log_calls < MaxLogCalls
  /\ log_calls' = log_calls + 1
  /\ log_pc' = [log_pc EXCEPT ![t] = "check"]
  /\ log_name' = [log_name EXCEPT ![t] = name]
  /\ UNCHANGED <<_configured, logfire_configures, basic_configs, log_settings, environ>>
  /\ UNCHANGED <<engine, csv_state>>

\* lines 24-26: "if _configured: return"
LogCheck(t) ==
  /\ log_pc[t] = "check"
  /\ log_pc' = [log_pc EXCEPT ![t] = IF _configured THEN "idle" ELSE "configure"]
  /\ UNCHANGED <<_configured, log_name, log_calls, logfire_configures, basic_configs,
                 log_settings, environ>>
  /\ UNCHANGED <<engine, csv_state>>

\* lines 32-36: os.environ written from the settings
EnvironAfter ==
  environ \cup (IF log_settings.logfire_api_key THEN {"LOGFIRE_API_KEY"} ELSE {})
          \cup (IF log_settings.logfire_project THEN {"LOGFIRE_PROJECT"} ELSE {})

\* lines 28-39: settings read, environment written, logfire.configure(...)
LogConfigure(t) ==
  /\ log_pc[t] = "configure"
  /\ environ' = EnvironAfter
  /\ logfire_configures' = Append(logfire_configures, log_name[t])
  /\ log_pc' = [log_pc EXCEPT ![t] = "basic"]
  /\ UNCHANGED <<_configured, log_name, log_calls, basic_configs, log_settings>>
  /\ UNCHANGED <<engine, csv_state>>

\* logfire.configure raises: the call ends, _configured stays False
LogConfigureFail(t) ==
  /\ log_pc[t] = "configure"
  /\ environ' = EnvironAfter
  /\ log_pc' = [log_pc EXCEPT ![t] = "idle"]
  /\ UNCHANGED <<_configured, log_name, log_calls, logfire_configures, basic_configs,
                 log_settings>>
  /\ UNCHANGED <<engine, csv_state>>

\* lines 41-44: logging.basicConfig(...)
LogBasicConfig(t) ==
  /\ log_pc[t] = "basic"
  /\ basic_configs' = basic_configs + 1
  /\ log_pc' = [log_pc EXCEPT ![t] = "set"]
  /\ UNCHANGED <<_configured, log_name, log_calls, logfire_configures, log_settings,
                 environ>>
  /\ UNCHANGED <<engine, csv_state>>

\* line 46: _configured = True
LogSetConfigured(t) ==
  /\ log_pc[t] = "set"
  /\ _configured' = TRUE
  /\ log_pc' = [log_pc EXCEPT ![t] = "idle"]
  /\ UNCHANGED <<log_name, log_calls, logfire_configures, basic_configs, log_settings,
                 environ>>
  /\ UNCHANGED <<engine, csv_state>>

(***************************************************************************)
(* write_catalog_to_csv(records) and load_catalog()                        *)
(***************************************************************************)
WriteCatalog ==
  /\ csv_pc = "crawled"
  /\ csv_row' = WriteRow(csv_record)
  /\ csv_pc' = "written"
  /\ UNCHANGED <<csv_record, loaded>>
  /\ UNCHANGED <<engine, logging_state>>

LoadCatalog ==
  /\ csv_pc = "written"
  /\ loaded' = LoadRow(csv_row)
  /\ csv_pc' = "loaded"
  /\ UNCHANGED <<csv_record, csv_row>>
  /\ UNCHANGED <<engine, logging_state>>

NextCsv ==
  \/ WriteCatalog
  \/ LoadCatalog

NextLogging ==
  \/ \E t \in LogThreads, name \in ServiceNames : LogCall(t, name)
  \/ \E t \in LogThreads : LogCheck(t)
  \/ \E t \in LogThreads : LogConfigure(t)
  \/ \E t \in LogThreads : LogConfigureFail(t)
  \/ \E t \in LogThreads : LogBasicConfig(t)
  \/ \E t \in LogThreads : LogSetConfigured(t)

Next ==
  \/ \E q \in Queries : Call(q)
  \/ ExtractSkip
  \/ ExtractOk
  \/ ExtractFail
  \/ EmbedFail
  \/ QueryFail
  \/ Retrieve
  \/ ReturnEmpty
  \/ Rank
  \/ DetermineCount
  \/ BuildItems
  \/ BuildFail

NextConc ==
  \/ Next
  \/ Switch

Spec == Init /\ [][Next]_vars

SpecPool == InitPool /\ [][Next]_vars

SpecConc == InitConc /\ [][NextConc]_vars

SpecLabels == InitLabels /\ [][Next]_vars

SpecParse == InitParse /\ [][Next]_vars

SpecLogging == InitLogging /\ [][NextLogging]_vars

SpecCsv == InitCsv /\ [][NextCsv]_vars

SpecExtract == InitExtract /\ [][Next]_vars

(***************************************************************************)
(* Properties.                                                             *)
(***************************************************************************)
\* the candidate carries one of the category codes of the set
SharesCode(candidate, codes) ==
  \E i \in 1..Len(candidate.assessment_types) : candidate.assessment_types[i] \in codes

\* position of the candidate in the retrieval order
RetrievalPos(candidate) ==
  CHOOSE i \in 1..Len(candidates) : candidates[i].id = candidate.id

\* ranked holds every retrieved candidate exactly once
IsPermutation(ranked, cands) ==
  /\ Len(ranked) = Len(cands)
  /\ \A i \in 1..Len(cands) : \E j \in 1..Len(ranked) : ranked[j] = cands[i]

\* descending similarity, equal similarities in retrieval order
OrderedBySimilarity(a, b) ==
  \/ a.embedding_similarity > b.embedding_similarity
  \/ /\ a.embedding_similarity = b.embedding_similarity
     /\ RetrievalPos(a) < RetrievalPos(b)

\* C1: with a non-empty extracted set the ranked list is a permutation of the
\* candidates, every candidate sharing a code with the set precedes every
\* candidate sharing none, and inside each group the order is descending
\* similarity with ties in retrieval order.
C1_MatchFirstRanking ==
  (pc = "ranked" /\ extracted_types # {}) =>
    /\ IsPermutation(ranked_candidates, candidates)
    /\ \A i, j \in 1..Len(ranked_candidates) :
         i < j =>
           LET a == ranked_candidates[i]
               b == ranked_candidates[j]
           IN IF SharesCode(a, extracted_types) = SharesCode(b, extracted_types)
              THEN OrderedBySimilarity(a, b)
              ELSE SharesCode(a, extracted_types)

\* a matching candidate of lower similarity is ranked ahead of a non-matching
\* one retrieved before it, and two matching candidates tie
C1_Witness ==
  /\ pc = "ranked"
  /\ extracted_types # {}
  /\ \E i, j \in 1..Len(ranked_candidates) :
       /\ i < j
       /\ SharesCode(ranked_candidates[i], extracted_types)
       /\ ~SharesCode(ranked_candidates[j], extracted_types)
       /\ ranked_candidates[i].embedding_similarity < ranked_candidates[j].embedding_similarity
       /\ RetrievalPos(ranked_candidates[j]) < RetrievalPos(ranked_candidates[i])

\* C2: with an empty extracted set the ranked list is the candidates in
\* descending similarity, ties in retrieval order, whatever their codes.
C2_SimilarityOnlyRanking ==
  (pc = "ranked" /\ extracted_types = {}) =>
    /\ IsPermutation(ranked_candidates, candidates)
    /\ \A i, j \in 1..Len(ranked_candidates) :
         i < j => OrderedBySimilarity(ranked_candidates[i], ranked_candidates[j])

\* the ranking reordered the pool, and of two candidates that tie the one
\* carrying code K stays behind the one that does not
C2_Witness ==
  /\ pc = "ranked"
  /\ extracted_types = {}
  /\ ranked_candidates # candidates
  /\ \E i, j \in 1..Len(ranked_candidates) :
       /\ i < j
       /\ ranked_candidates[i].embedding_similarity = ranked_candidates[j].embedding_similarity
       /\ ~SharesCode(ranked_candidates[i], {<<"K">>})
       /\ SharesCode(ranked_candidates[j], {<<"K">>})

\* C3: a returned list is never longer than the configured recommendation
\* limit, than 10, or than the number of retrieved candidates.
C3_WithinLimit ==
  pc = "returned" =>
    /\ Len(recommendations) <= settings.recommendation_limit
    /\ Len(recommendations) <= 10
    /\ Len(recommendations) <= Len(candidates)

\* number of candidates of the whole pool sharing a code with the extracted set
MatchesInPool ==
  Cardinality({i \in 1..Len(candidates) : SharesCode(candidates[i], extracted_types)})

ClaimedTarget(m) ==
  CASE m >= 10 -> 10
    [] m \in 7..9 -> 8
    [] m \in 5..6 -> 7
    [] OTHER -> 5

\* C4: the target count is the step function 10 / 8 / 7 / 5 of the number of
\* matching candidates of the whole pool, and the target and the final count
\* for the call's limit and pool size never decrease when the matches grow.
C4_StepFunction ==
  pc = "counted" =>
    /\ optimal_count = ClaimedTarget(MatchesInPool)
    /\ \A m1, m2 \in 0..Len(candidates) :
         m1 <= m2 =>
           /\ ResultCountFor(m1) <= ResultCountFor(m2)
           /\ DesiredCount(ResultCountFor(m1), settings.recommendation_limit, Len(candidates))
                <= DesiredCount(ResultCountFor(m2), settings.recommendation_limit, Len(candidates))

\* ten matching candidates give the target 10 and, under a limit of 10 or
\* more, ten ranked candidates to build
C4_Witness ==
  /\ pc = "counted"
  /\ MatchesInPool >= 10
  /\ optimal_count = 10
  /\ Len(ranked_candidates) = 10

\* C5: a call that retrieved candidates returns, with at least 5 items when
\* at least 5 candidates were retrieved and with one item per candidate when
\* fewer were.
C5_FloorOfFive ==
  (pc \in {"returned", "raised"} /\ raised_in # "retrieve") =>
    /\ pc = "returned"
    /\ Len(candidates) >= 5 => Len(recommendations) >= 5
    /\ Len(candidates) < 5 => Len(recommendations) = Len(candidates)

FixedAlphabet == {<<c>> : c \in {"A", "B", "C", "D", "E", "K", "P", "S"}}

\* C6: the extracted set is a subset of the fixed alphabet, has at most 3
\* elements, and has at most 2 unless the lower-cased query contains a cue.
C6_ExtractedSetBounded ==
  /\ extracted_types \subseteq FixedAlphabet
  /\ Cardinality(extracted_types) <= 3
  /\ Cardinality(extracted_types) > 2 =>
       \E cue \in multi_type_cues : Contains(Lower(query), cue)

\* the agent named four distinct valid codes and three were kept
C6_Witness ==
  /\ pc = "retrieve"
  /\ Len(agent_output) = 4
  /\ Cardinality(extracted_types) = 3

\* C7: when no extractor is configured or the extractor raised, the extracted
\* set is empty, the error is not propagated, the call goes on to retrieval
\* and a ranking it performs is by similarity only.
C7_ExtractionNeverAborts ==
  ("agent" \in failed \/ (~settings.gemini_api_key /\ pc \notin {"idle", "extract"})) =>
    /\ extracted_types = {}
    /\ raised_in # "extract"
    /\ pc \in {"returned", "raised"} => "retrieve" \in Range(stages)
    /\ pc = "ranked" =>
         \A i, j \in 1..Len(ranked_candidates) :
            i < j => OrderedBySimilarity(ranked_candidates[i], ranked_candidates[j])

\* the agent would have named codes, raised instead, and the pool was
\* reordered by similarity
C7_Witness ==
  /\ "agent" \in failed
  /\ agent_output # <<>>
  /\ pc = "ranked"
  /\ ranked_candidates # candidates

\* the index was queried and answered
Retrieved == "retrieve" \in Range(stages) /\ raised_in # "retrieve"

\* C8: when retrieval yields no candidate the call returns the empty list
\* and runs none of ranking, count determination or item construction.
C8_EmptyRetrievalReturnsEmpty ==
  (Retrieved /\ candidates = <<>>) =>
    /\ pc \in {"retrieved", "returned"}
    /\ Range(stages) \cap {"rank", "count", "build"} = {}
    /\ pc = "returned" => recommendations = <<>>

\* the index answered with rows that were all skipped and the call returned
C8_Witness ==
  /\ pc = "returned"
  /\ candidates = <<>>
  /\ collection # <<>>
  /\ stages = <<"extract", "retrieve">>

\* C9: a failure of the embedder or of the index query ends the call with
\* that failure propagated, no list is returned, and the index is queried at
\* most once per call.
C9_RetrievalFailurePropagates ==
  /\ index_queries <= 1
  /\ Len(SelectSeq(stages, LAMBDA st : st = "retrieve")) <= 1
  /\ failed \cap {"embedder", "index"} # {} =>
       /\ pc = "raised"
       /\ raised_in = "retrieve"
       /\ recommendations = <<>>

\* the index query raised after the extraction stage and the call raised
C9_Witness ==
  /\ "index" \in failed
  /\ pc = "raised"
  /\ index_queries = 1
  /\ extracted_types # {}

\* C10: a call ends with a returned list or with a failure raised by the
\* retrieval stage; no failure originates in a later stage.
C10_OnlyRetrievalFails ==
  pc = "raised" => raised_in = "retrieve"

\* the labels of a list of codes, by the table, unknown codes as themselves
LabelsOfCodes(codes) ==
  [k \in 1..Len(codes) |->
     IF codes[k] \in DOMAIN ASSESSMENT_TYPE_LABELS
     THEN ASSESSMENT_TYPE_LABELS[codes[k]] ELSE codes[k]]

\* the text between the first and the second line break, trimmed; <<>> when
\* there is no such text
SecondLine(document) ==
  LET breaks == {k \in 1..Len(document) : document[k] = "\n"}
  IN IF breaks = {} THEN <<>>
     ELSE LET first == CHOOSE k \in breaks : \A l \in breaks : k <= l
              later == {k \in breaks : k > first}
              stop == IF later = {} THEN Len(document) + 1
                      ELSE CHOOSE k \in later : \A l \in later : k <= l
              line == SubSeq(document, first + 1, stop - 1)
              inked == {k \in 1..Len(line) : ~IsSpace(line[k])}
          IN IF inked = {} THEN <<>>
             ELSE <<SubSeq(line, CHOOSE k \in inked : \A l \in inked : k <= l,
                                 CHOOSE k \in inked : \A l \in inked : k >= l)>>

\* the item is the one of the candidate's catalog record
FromCatalogRecord(item, candidate) ==
  LET record == catalog_index[candidate.id]
  IN /\ item.name = record.name
     /\ item.url = record.url
     /\ item.description = record.description

\* the item is rebuilt from the candidate itself
FromCandidate(item, candidate) ==
  /\ item.name = candidate.name
  /\ item.url = candidate.url
  /\ item.description = SecondLine(candidate.document)
  /\ item.test_type = LabelsOfCodes(candidate.assessment_types)

\* C11: the returned list has one item per candidate of the first n ranked
\* candidates, in ranked order; item i comes from the catalog record when the
\* candidate's id is a key of the catalog lookup and from the candidate only
\* when it is not.
C11_ItemsFollowRanking ==
  (pc = "returned" /\ candidates # <<>>) =>
    LET ranked == _rank_candidates(candidates, extracted_types)
        n == Len(recommendations)
    IN /\ n = desired_count
       /\ n <= Len(ranked)
       /\ \A i \in 1..n :
            IF ranked[i].id \in DOMAIN catalog_index
            THEN FromCatalogRecord(recommendations[i], ranked[i])
            ELSE FromCandidate(recommendations[i], ranked[i])

\* a reordered pool whose returned items come one from the catalog and one
\* from a candidate with a second document line
C11_Witness ==
  /\ pc = "returned"
  /\ ranked_candidates # candidates
  /\ \E i, j \in 1..Len(recommendations) :
       /\ ranked_candidates[i].id \in DOMAIN catalog_index
       /\ ranked_candidates[j].id \notin DOMAIN catalog_index
       /\ recommendations[j].description # <<>>

\* C12: when load_catalog() failed in __init__ the engine exists with an empty
\* catalog lookup, and every item a call returns has the second line of the
\* candidate's document as description (none when that line is missing or
\* blank).
C12_LoadFailureDegrades ==
  catalog_load = "failed" =>
    /\ DOMAIN catalog_index = {}
    /\ pc = "returned" =>
         /\ Len(recommendations) = Len(ranked_candidates)
         /\ \A i \in 1..Len(recommendations) :
              recommendations[i].description = SecondLine(ranked_candidates[i].document)

\* after a failed load a call returned one item with a description and one
\* without
C12_Witness ==
  /\ catalog_load = "failed"
  /\ pc = "returned"
  /\ \E i, j \in 1..Len(recommendations) :
       /\ recommendations[i].description # <<>>
       /\ recommendations[j].description = <<>>

IsPrefixOf(s, t) == Len(s) <= Len(t) /\ s = SubSeq(t, 1, Len(s))

StageOrder == <<"extract", "retrieve", "rank", "count", "build">>

\* C13: the stages of a call run in the order extraction, embedding, index
\* query, ranking, count determination, item construction, each after the
\* previous one has finished, and the extractor, the embedder and the index
\* are each called at most once per call.
C13_StagesInOrder ==
  /\ IsPrefixOf(stages, StageOrder)
  /\ IsPrefixOf(calls, IF settings.gemini_api_key
                       THEN <<"agent", "embedder", "index">>
                       ELSE <<"embedder", "index">>)
  /\ "embedder" \in Range(calls) => "extract" \in Range(stages)
  /\ "rank" \in Range(stages) => "index" \in Range(calls)
  /\ pc = "returned" => stages \in {StageOrder, <<"extract", "retrieve">>}

\* a call ran all five stages and called each collaborator once
C13_Witness ==
  /\ pc = "returned"
  /\ stages = StageOrder
  /\ calls = <<"agent", "embedder", "index">>
  /\ index_queries = 1

\* what recommend(q) gives on its own when the collaborators in fails raise
SoloOutcome(q, fails) ==
  LET extracted == IF settings.gemini_api_key /\ "agent" \notin fails
                   THEN _extract_types_from_query(q, agent_output) ELSE {}
      cands == _retrieve_candidates(collection, settings.candidate_pool_size)
      ranked == _rank_candidates(cands, extracted)
      top == Prefix(ranked, DesiredCount(_determine_result_count(ranked, extracted),
                                         settings.recommendation_limit, Len(ranked)))
  IN IF fails \cap {"embedder", "index"} # {} THEN [pc |-> "raised", list |-> <<>>]
     ELSE IF cands = <<>> THEN [pc |-> "returned", list |-> <<>>]
     ELSE IF \E i \in 1..Len(top) : BuildRaises(top[i], catalog_index)
          THEN [pc |-> "raised", list |-> <<>>]
          ELSE [pc |-> "returned",
                list |-> [i \in 1..Len(top) |->
                            _build_recommendation_item(top[i], catalog_index)]]

EndedAsAlone(call) ==
  call.pc \in {"returned", "raised"} =>
    [pc |-> call.pc, list |-> call.recommendations]
      = SoloOutcome(call.query, call.failed \ {"validation"})

\* C14: with two calls interleaved on one engine each call ends as it would
\* alone with the same collaborator responses, and no step of a call changes
\* the settings, the catalog lookup or the index handle.
C14_CallsIndependent ==
  /\ [](EndedAsAlone(CallState) /\ EndedAsAlone(parked))
  /\ [][UNCHANGED <<settings, catalog_index, collection, agent_output, catalog_load>>]_vars

\* both calls ended, with different lists, after running interleaved
C14_Witness ==
  /\ pc = "returned"
  /\ parked.pc = "returned"
  /\ recommendations # <<>>
  /\ parked.recommendations # <<>>
  /\ recommendations # parked.recommendations
  /\ extracted_types # parked.extracted_types

\* the index row a candidate was built from
RowOf(candidate) == collection[candidate.id]

OneMinusDistance(candidate) ==
  candidate.embedding_similarity =
    IF RowOf(candidate).has_distance THEN 1 - RowOf(candidate).distance ELSE 0

\* C15 as stated: similarity is 1 - distance (0 without a distance) and lies
\* in [0, 1] for every cosine distance in [0, 2].
C15_SimilarityInUnitInterval ==
  Retrieved =>
    \A i \in 1..Len(candidates) :
      /\ OneMinusDistance(candidates[i])
      /\ RowOf(candidates[i]).distance \in 0..2 =>
           candidates[i].embedding_similarity \in 0..1

\* C15 amended: similarity is 1 - distance (0 without a distance); for a
\* cosine distance in [0, 2] it lies in [-1, 1], and it lies in [0, 1] exactly
\* when the distance is at most 1 or absent.
C15_SimilarityRange ==
  Retrieved =>
    \A i \in 1..Len(candidates) :
      /\ OneMinusDistance(candidates[i])
      /\ RowOf(candidates[i]).distance \in 0..2 =>
           /\ candidates[i].embedding_similarity \in -1..1
           /\ candidates[i].embedding_similarity \in 0..1
                <=> (~RowOf(candidates[i]).has_distance \/ RowOf(candidates[i]).distance <= 1)

\* a row at distance 2 and a row without distance were both converted
C15_Witness ==
  /\ Retrieved
  /\ \E i \in 1..Len(candidates) :
       /\ RowOf(candidates[i]).has_distance
       /\ RowOf(candidates[i]).distance = 2
       /\ candidates[i].embedding_similarity = -1
  /\ \E i \in 1..Len(candidates) :
       /\ ~RowOf(candidates[i]).has_distance
       /\ candidates[i].embedding_similarity = 0

\* the code a label stands for; text that is no label stands for itself
CodeOfLabel(label) ==
  IF \E c \in DOMAIN ASSESSMENT_TYPE_LABELS : ASSESSMENT_TYPE_LABELS[c] = label
  THEN CHOOSE c \in DOMAIN ASSESSMENT_TYPE_LABELS : ASSESSMENT_TYPE_LABELS[c] = label
  ELSE label

KnownCodes == {<<"A">>, <<"B">>, <<"C">>, <<"D">>, <<"E">>, <<"K">>, <<"P">>, <<"S">>}

\* C16: the table maps the 8 known codes to 8 pairwise distinct labels, a code
\* outside the table is its own label, and the labels of a returned item map
\* back to exactly the code set of the catalog record (or the code list of
\* the candidate) the item was built from.
C16_LabelsInvertible ==
  /\ DOMAIN ASSESSMENT_TYPE_LABELS = KnownCodes
  /\ \A c, d \in KnownCodes :
       ASSESSMENT_TYPE_LABELS[c] = ASSESSMENT_TYPE_LABELS[d] => c = d
  /\ pc = "returned" =>
       \A i \in 1..Len(recommendations) :
         LET labels == recommendations[i].test_type
             id == ranked_candidates[i].id
         IN IF id \in DOMAIN catalog_index
            THEN /\ Len(labels) = Cardinality(catalog_index[id].assessment_types)
                 /\ {CodeOfLabel(labels[k]) : k \in 1..Len(labels)}
                      = catalog_index[id].assessment_types
                 /\ \A k \in 1..Len(labels) :
                      CodeOfLabel(labels[k]) \notin KnownCodes => labels[k] = CodeOfLabel(labels[k])
            ELSE [k \in 1..Len(labels) |-> CodeOfLabel(labels[k])]
                   = ranked_candidates[i].assessment_types

\* an item built from a record with a known code, and a code outside the table
C16_Witness ==
  /\ pc = "returned"
  /\ \E i \in 1..Len(recommendations) :
       /\ ranked_candidates[i].id \in DOMAIN catalog_index
       /\ <<"Z">> \in catalog_index[ranked_candidates[i].id].assessment_types
       /\ <<"E">> \in catalog_index[ranked_candidates[i].id].assessment_types
       /\ Len(recommendations[i].test_type) = MaxCodes
       /\ <<"Z">> \in Range(recommendations[i].test_type)

\* the rows the index returns for candidate_pool_size neighbours
RequestedRows == 1..Min2(settings.candidate_pool_size, Len(collection))

\* C18: the candidates are exactly the rows with non-empty metadata among the
\* first candidate_pool_size rows of the index result, one candidate per row,
\* in row order, so there are at most candidate_pool_size of them.
C18_RetrievalKeepsRows ==
  Retrieved =>
    /\ Len(candidates) <= settings.candidate_pool_size
    /\ {candidates[k].id : k \in 1..Len(candidates)}
         = {i \in RequestedRows : ~collection[i].metadata.empty}
    /\ \A k, l \in 1..Len(candidates) : k < l => candidates[k].id < candidates[l].id
    /\ \A k \in 1..Len(candidates) :
         /\ candidates[k].document = RowOf(candidates[k]).document
         /\ candidates[k].name = RowOf(candidates[k]).metadata.name
         /\ candidates[k].url = RowOf(candidates[k]).metadata.url

\* the index holds more rows than requested: a requested row without metadata
\* is skipped, the next one is kept, and a row past the cut is left out
C18_Witness ==
  /\ Retrieved
  /\ Len(collection) > settings.candidate_pool_size
  /\ collection[1].metadata.empty
  /\ ~collection[Len(collection)].metadata.empty
  /\ Len(candidates) = settings.candidate_pool_size - 1
  /\ candidates # <<>>

\* text without the white space at its ends
Trimmed(text) ==
  LET inked == {j \in 1..Len(text) : ~IsSpace(text[j])}
  IN IF inked = {} THEN <<>>
     ELSE SubSeq(text, CHOOSE j \in inked : \A l \in inked : j <= l,
                       CHOOSE j \in inked : \A l \in inked : j >= l)

\* the trimmed, upper-cased, non-empty items in their order
CanonicalCodes(items) ==
  LET keep == {i \in 1..Len(items) : Trimmed(items[i]) # <<>>}
      nth(k) == CHOOSE i \in keep : Cardinality({j \in keep : j <= i}) = k
  IN [k \in 1..Cardinality(keep) |-> Upper(Trimmed(items[nth(k)]))]

\* rows 1..3 of the index hold the same codes as list and as joined text
SameCodesRetrieved ==
  /\ Retrieved
  /\ Len(candidates) >= 3

\* C19: the list and the comma-joined string of the same codes parse to the
\* same ordered list of trimmed, upper-cased, non-empty codes, any other value
\* parses to the empty list, and the candidates of the three shapes are
\* matched, counted and ranked alike.
C19_ShapesParseAlike ==
  SameCodesRetrieved =>
    LET codes == CanonicalCodes(collection[1].metadata.assessment_types.items)
    IN /\ candidates[1].assessment_types = codes
       /\ candidates[2].assessment_types = codes
       /\ candidates[3].assessment_types = codes
       /\ \A k \in 1..Len(candidates) :
            RowOf(candidates[k]).metadata.assessment_types.kind = "none"
              => candidates[k].assessment_types = <<>>
       /\ "rank" \in Range(stages) =>
            /\ SubSeq(ranked_candidates, 1, 3) = SubSeq(candidates, 1, 3)
               \/ SubSeq(ranked_candidates, Len(candidates) - 2, Len(candidates))
                    = SubSeq(candidates, 1, 3)
            /\ TypeMatchCount(ranked_candidates, extracted_types) \in {0, 3}

\* padded and blank codes were stored in the three shapes and matched
C19_Witness ==
  /\ SameCodesRetrieved
  /\ pc = "returned"
  /\ Len(collection[1].metadata.assessment_types.items) = MaxItems
  /\ Len(candidates[2].assessment_types) = 2
  /\ <<"P">> \in Range(candidates[3].assessment_types)
  /\ TypeMatchCount(ranked_candidates, extracted_types) = 3

\* entry i of the extractor's output, trimmed and upper-cased
NormalCode(i) == Upper(Trimmed(agent_output[i]))

\* the places where a valid code shows up for the first time
FirstValid ==
  {i \in 1..Len(agent_output) :
     /\ NormalCode(i) \in FixedAlphabet
     /\ \A j \in 1..(i - 1) : NormalCode(j) # NormalCode(i)}

QueryHasCue == \E cue \in multi_type_cues : Contains(Lower(query), cue)

KeptCodes(n) ==
  {NormalCode(i) : i \in {k \in FirstValid : Cardinality({j \in FirstValid : j <= k}) <= n}}

ExtractorAnswered ==
  /\ settings.gemini_api_key
  /\ "agent" \notin failed
  /\ pc \notin {"idle", "extract"}

\* C20: the kept codes are the first 3 distinct valid codes of the extractor's
\* output in its order, and only the first 2 of them when 3 remain and the
\* query has no multi-category cue.
C20_FirstDistinctValidKept ==
  ExtractorAnswered =>
    extracted_types =
      KeptCodes(IF Cardinality(FirstValid) >= 3 /\ ~QueryHasCue THEN 2 ELSE 3)

\* four entries, a repeat and an invalid code among them are passed over, and
\* the third distinct valid code is dropped for want of a cue
C20_Witness ==
  /\ ExtractorAnswered
  /\ ~QueryHasCue
  /\ Len(agent_output) = MaxOut
  /\ Cardinality(FirstValid) = 3
  /\ 2 \notin FirstValid
  /\ Cardinality(extracted_types) = 2
  /\ NormalCode(Len(agent_output)) \notin extracted_types
  /\ NormalCode(1) \in extracted_types

\* C21: over any calls of configure_logging, from any threads and with any
\* service names, logfire.configure and logging.basicConfig are each performed
\* at most once, and once a call has completed the configuration no later
\* step changes the logging configuration.
C21_ConfiguredOnce ==
  [][/\ Len(logfire_configures') <= 1
     /\ basic_configs' <= 1
     /\ _configured => UNCHANGED <<_configured, logfire_configures, basic_configs, environ>>]_vars

\* ids of the candidates the returned items were built from
ReturnedIds == {ranked_candidates[i].id : i \in 1..Len(ranked_candidates)}

\* C22: the returned items are built, one each, from distinct retrieved
\* candidates, and when one of them matches no extracted category then every
\* category-matching candidate of the retrieved pool is among them.
C22_MatchesNeverLeftBehind ==
  pc = "returned" =>
    /\ Len(recommendations) = Len(ranked_candidates)
    /\ \A i \in 1..Len(ranked_candidates) :
         /\ \E k \in 1..Len(candidates) : candidates[k] = ranked_candidates[i]
         /\ IF ranked_candidates[i].id \in DOMAIN catalog_index
            THEN FromCatalogRecord(recommendations[i], ranked_candidates[i])
            ELSE FromCandidate(recommendations[i], ranked_candidates[i])
    /\ \A i, j \in 1..Len(ranked_candidates) :
         i # j => ranked_candidates[i].id # ranked_candidates[j].id
    /\ (\E i \in 1..Len(ranked_candidates) :
          ~SharesCode(ranked_candidates[i], extracted_types))
         => \A k \in 1..Len(candidates) :
              SharesCode(candidates[k], extracted_types) => candidates[k].id \in ReturnedIds

\* codes were extracted, part of the pool was returned, with every matching
\* candidate and some that do not match
C22_Witness ==
  /\ pc = "returned"
  /\ extracted_types # {}
  /\ Len(recommendations) < Len(candidates)
  /\ \E i \in 1..Len(ranked_candidates) : ~SharesCode(ranked_candidates[i], extracted_types)
  /\ \E i \in 1..Len(ranked_candidates) : SharesCode(ranked_candidates[i], extracted_types)
  /\ \E k \in 1..Len(candidates) : candidates[k].id \notin ReturnedIds

\* C23: a catalog record written with write_catalog_to_csv and read back
\* with load_catalog has the same identifier, category codes, job levels,
\* languages, description and remote/adaptive flags, also when the code set,
\* the lists or the description are empty or a flag is unknown.
C23_CsvRoundTrip ==
  csv_pc = "loaded" =>
    /\ loaded.entity_id = csv_record.entity_id
    /\ loaded.assessment_types = csv_record.assessment_types
    /\ loaded.job_levels = csv_record.job_levels
    /\ loaded.languages = csv_record.languages
    /\ loaded.description = csv_record.description
    /\ loaded.remote_testing = csv_record.remote_testing
    /\ loaded.adaptive = csv_record.adaptive

====
